---- MODULE Spec2Model ----
(***************************************************************************)
(* Sentinel ML: the synthetic data generator (generate_data.py), the       *)
(* trainer (train_models.py) and the prediction service (ml_api.py).       *)
(*                                                                         *)
(* Numbers.  Fractions are kept in fixed point.  In the generator and the  *)
(* trainer a score or a rate is an integer number of hundredths (0.6 is    *)
(* 60, 3.6 is 360, 5 is 500).  In the service a probability is an integer  *)
(* number of ten-thousandths (1.0 is 10000), so that rounding to three     *)
(* decimals is visible.                                                    *)
(*                                                                         *)
(* Two specifications.  SpecGen carries rows through the generator's       *)
(* column statements and on through the trainer's label derivation; the    *)
(* column statements are elementwise, so a row is carried alone and the    *)
(* label encoders accumulate the classes they have seen.  Spec is the      *)
(* pipeline on disk: dataset file, trainer runs, artifact files, service   *)
(* start and predict requests.                                             *)
(***************************************************************************)
EXTENDS Integers, Sequences, FiniteSets, TLC

VARIABLES
    \* ---- generator (generate_data.py) ----
    gpc,            \* the statement the current row is at
    row,            \* the current row of df
    csv_row,        \* the row as written to synthetic_pr_data.csv
    feedback_label, \* trainer: df["feedback_label"] of that row
    \* ---- operator ----
    opc,            \* "free", or "train" between a dataset write and the trainer launch
    \* ---- trainer (train_models.py) ----
    tpc,            \* the trainer's position; "idle" when no run is active
    run,            \* number of trainer runs started so far
    texit,          \* how the last trainer run ended
    df,             \* trainer: the table read from the dataset file
    y_feedback_labels, \* trainer: the derived feedback_label column (as a set)
    t_le_priority,  \* trainer: le_priority.classes_
    t_le_feedback,  \* trainer: le_feedback.classes_
    \* ---- files ----
    csv,            \* synthetic_pr_data.csv
    disk,           \* the six artifact files
    \* ---- service (ml_api.py) ----
    spc,            \* "down", "failed" or "serving"
    loaded,         \* the six module-level objects
    req             \* the predict requests in flight or answered

genvars  == <<gpc, row, csv_row, feedback_label>>
encvars  == <<t_le_priority, t_le_feedback>>
trainvars == <<opc, tpc, run, texit, df, y_feedback_labels>>
filevars == <<csv, disk>>
srvvars  == <<spc, loaded, req>>
vars == <<genvars, encvars, trainvars, filevars, srvvars>>

\* trainer runs in a behaviour
MaxRuns == 2
\* predict requests in a behaviour
MaxReq == 2

\* a column of the row not computed yet
Unset == "unset"
UnsetNum == 0 - 1
NoRow == [none |-> TRUE]

(***************************************************************************)
(* generate_data.py                                                        *)
(***************************************************************************)

\* np.random.randint(1, 11, n)
SeverityScores == 1..10
\* np.random.randint(0, 6, n)
DeveloperFeedbacks == 0..5
\* np.random.uniform(0.3, 1.0, n): samples of [0.30, 1.00), in hundredths
TestCoverages == {30, 60, 61, 99}
\* np.random.uniform(0.2, 1.0, n): samples of [0.20, 1.00), in hundredths
PastAcceptanceRates == {20, 50, 51, 95}

\* the dict `data`: one row of the eight sampled columns
SampledRows ==
    [severity_score : SeverityScores,
     code_complexity : {5},
     lines_changed : {100},
     developer_feedbacks : DeveloperFeedbacks,
     test_coverage : TestCoverages,
     past_acceptance_rate : PastAcceptanceRates,
     contains_security_fix : {1},
     review_time : {2400},
     feedback_score : {UnsetNum},
     priority : {Unset},
     accepted : {UnsetNum}]

\* 5 - developer_feedbacks * 0.5 + test_coverage * 2 + past_acceptance_rate
FeedbackRaw(r) ==
    500 - r.developer_feedbacks * 50 + r.test_coverage * 2 + r.past_acceptance_rate

\* Series.clip(lo, hi)
Clip(x, lo, hi) == IF x < lo THEN lo ELSE IF x > hi THEN hi ELSE x

\* Series.round(1): to the nearest tenth, a tie to the even tenth
Round1(x) ==
    LET q == x \div 10
        rem == x % 10
    IN  IF rem < 5 THEN q * 10
        ELSE IF rem > 5 THEN (q + 1) * 10
        ELSE IF q % 2 = 0 THEN q * 10 ELSE (q + 1) * 10

FeedbackScoreUnrounded(r) == Clip(FeedbackRaw(r), 100, 500)

\* df["feedback_score"] = (...).clip(1, 5).round(1)
FeedbackScore(r) == Round1(Clip(FeedbackRaw(r), 100, 500))

assign_priority_gt(r) ==
    IF r.severity_score > 8 THEN "critical"
    ELSE IF r.severity_score > 6 THEN "high"
    ELSE IF r.severity_score > 4 THEN "medium"
    ELSE "low"

assign_priority(r) ==
    IF r.severity_score >= 8 THEN "critical"
    ELSE IF r.severity_score >= 6 THEN "high"
    ELSE IF r.severity_score >= 4 THEN "medium"
    ELSE "low"

AcceptedNonStrict(r) ==
    IF /\ r.developer_feedbacks < 3
       /\ r.test_coverage >= 60
       /\ r.past_acceptance_rate > 50
       /\ r.severity_score < 9
    THEN 1 ELSE 0

\* df["accepted"] = (... & ... & ... & ...).astype(int)
Accepted(r) ==
    IF /\ r.developer_feedbacks < 3
       /\ r.test_coverage > 60
       /\ r.past_acceptance_rate > 50
       /\ r.severity_score < 9
    THEN 1 ELSE 0

(***************************************************************************)
(* train_models.py: labels and encoders                                    *)
(***************************************************************************)

feedback_bucket_shifted(score) ==
    IF score <= 360 THEN "reject"
    ELSE IF score <= 420 THEN "major"
    ELSE "minor"

feedback_bucket(score) ==
    IF score <= 220 THEN "reject"
    ELSE IF score <= 360 THEN "major"
    ELSE "minor"

\* the order np.unique gives strings
LabelOrder == <<"critical", "high", "low", "major", "medium", "minor", "reject">>

Range(s) == {s[i] : i \in DOMAIN s}

\* LabelEncoder.fit: classes_ = the sorted distinct labels
LabelEncoderFit(labels) == SelectSeq(LabelOrder, LAMBDA x : x \in labels)

(***************************************************************************)
(* Files                                                                   *)
(***************************************************************************)

NoFile == [none |-> TRUE]
NoTable == [none |-> TRUE]

\* NUM_FEATURES, in order
NUM_FEATURES ==
    <<"severity_score", "code_complexity", "lines_changed", "developer_feedbacks",
      "test_coverage", "past_acceptance_rate", "contains_security_fix", "review_time">>

LabelColumns == {"feedback_score", "priority", "accepted"}
AllColumns == Range(NUM_FEATURES) \cup LabelColumns

\* the table generate_data.py writes: every sampled row with its three derived
\* columns; a column is kept as the set of its values
GeneratedTable ==
    [table |-> 1,
     columns |-> AllColumns,
     feedback_score |-> {FeedbackScore(r) : r \in SampledRows},
     priority |-> {assign_priority(r) : r \in SampledRows},
     accepted |-> {Accepted(r) : r \in SampledRows}]

\* a table of the other flavour, put in place by the operator
OtherTable ==
    [table |-> 2,
     columns |-> AllColumns,
     feedback_score |-> {150, 300, 450},
     priority |-> {"high", "low"},
     accepted |-> {0, 1}]

\* tables the operator may put at synthetic_pr_data.csv: the other flavour, and
\* tables that lack one column
OperatorTables ==
    {OtherTable} \cup
    {[GeneratedTable EXCEPT !.columns = AllColumns \ {c}] : c \in AllColumns}

\* the six artifact files, in the order ml_api.py loads them
ArtifactOrder ==
    <<"model_feedback", "model_priority", "model_accept",
      "labelencoder_priority", "labelencoder_feedback", "model_features">>
ArtifactFiles == Range(ArtifactOrder)

MissingArtifacts(d) == {f \in ArtifactFiles : d[f] = NoFile}

(***************************************************************************)
(* Initial values                                                          *)
(***************************************************************************)

GenOff ==
    /\ gpc = "off"
    /\ row = NoRow
    /\ csv_row = NoRow
    /\ feedback_label = Unset

EncodersUnfit ==
    /\ t_le_priority = << >>
    /\ t_le_feedback = << >>

NoRequest == [pc |-> "idle"]

PipelineStart ==
    /\ opc = "free"
    /\ tpc = "idle"
    /\ run = 0
    /\ texit = "none"
    /\ df = NoTable
    /\ y_feedback_labels = {}
    /\ csv = NoFile
    /\ disk = [f \in ArtifactFiles |-> NoFile]
    /\ spc = "down"
    /\ loaded = [f \in ArtifactFiles |-> NoFile]

(***************************************************************************)
(* Dataset file                                                            *)
(*                                                                         *)
(* The three programs are launched by an operator, one at a time (they     *)
(* are "used in sequence"): the dataset is written and the trainer is run  *)
(* while no trainer run is active and the service is not serving.  A       *)
(* dataset is written in order to be trained on: only while a trainer run  *)
(* can still follow, and the trainer is what the operator launches next.   *)
(***************************************************************************)

\* a run of generate_data.py: to_csv overwrites the dataset file
GenerateData ==
    /\ tpc = "idle"
    /\ spc # "serving"
    /\ run < MaxRuns
    /\ opc = "free"
    /\ opc' = "train"
    /\ csv' = GeneratedTable
    /\ UNCHANGED <<genvars, encvars, tpc, run, texit, df, y_feedback_labels, disk, srvvars>>

\* the operator puts another table at the dataset path
ProvideDataset ==
    /\ tpc = "idle"
    /\ spc # "serving"
    /\ run < MaxRuns
    /\ opc = "free"
    /\ opc' = "train"
    /\ \E t \in OperatorTables : csv' = t
    /\ UNCHANGED <<genvars, encvars, tpc, run, texit, df, y_feedback_labels, disk, srvvars>>

\* the operator removes one file of a complete set of artifacts
RemoveArtifact ==
    /\ tpc = "idle"
    /\ spc # "serving"
    /\ opc = "free"
    /\ MissingArtifacts(disk) = {}
    /\ \E f \in ArtifactFiles : disk' = [disk EXCEPT ![f] = NoFile]
    /\ UNCHANGED <<genvars, encvars, trainvars, csv, srvvars>>

(***************************************************************************)
(* train_models.py, statement by statement                                 *)
(***************************************************************************)

\* the process ends: its memory is gone, its exit status is left
TrainerExit(status) ==
    /\ tpc' = "idle"
    /\ texit' = status
    /\ df' = NoTable
    /\ y_feedback_labels' = {}
    /\ t_le_priority' = << >>
    /\ t_le_feedback' = << >>

\* an uncaught exception ends the process; nothing is written on the way out
TrainerRaise(exc) ==
    /\ TrainerExit(exc)
    /\ UNCHANGED disk

\* the next statement, memory as it is
TrainerGoto(next) ==
    /\ tpc' = next
    /\ UNCHANGED <<texit, df, y_feedback_labels, encvars, disk>>

\* joblib.dump(obj, file)
Dump(file, obj) == disk' = [disk EXCEPT ![file] = obj]

\* the operator launches train_models.py
TrainerStart ==
    /\ tpc = "idle"
    /\ spc # "serving"
    /\ run < MaxRuns
    /\ run' = run + 1
    /\ opc' = "free"
    /\ tpc' = "load"
    /\ texit' = "running"
    /\ UNCHANGED <<genvars, encvars, df, y_feedback_labels, filevars, srvvars>>

\* if not DATA_PATH.exists(): raise FileNotFoundError; df = pd.read_csv(DATA_PATH)
TrainerLoad ==
    /\ tpc = "load"
    /\ IF csv = NoFile
       THEN TrainerRaise("FileNotFoundError")
       ELSE /\ df' = csv
            /\ tpc' = "label"
            /\ UNCHANGED <<texit, y_feedback_labels, encvars, disk>>
    /\ UNCHANGED <<genvars, opc, run, csv, srvvars>>

\* if "feedback_score" not in df.columns: raise KeyError;
\* df["feedback_label"] = df["feedback_score"].apply(feedback_bucket)
TrainerLabel ==
    /\ tpc = "label"
    /\ IF "feedback_score" \notin df.columns
       THEN TrainerRaise("KeyError")
       ELSE /\ y_feedback_labels' = {feedback_bucket(x) : x \in df.feedback_score}
            /\ tpc' = "balance"
            /\ UNCHANGED <<texit, df, encvars, disk>>
    /\ UNCHANGED <<genvars, opc, run, csv, srvvars>>

\* the columns the class balance logging reads: df["priority"], df["accepted"]
BalanceColumns == {"priority", "accepted"}

\* print(df[...].value_counts(normalize=True)), three times
TrainerBalance ==
    /\ tpc = "balance"
    /\ IF BalanceColumns \subseteq df.columns
       THEN TrainerGoto("features")
       ELSE TrainerRaise("KeyError")
    /\ UNCHANGED <<genvars, opc, run, csv, srvvars>>

NoMissingFeatureColumns(t) == {}

\* the names of NUM_FEATURES that df[NUM_FEATURES] does not find
MissingFeatureColumns(t) == Range(NUM_FEATURES) \ t.columns

\* X = df[NUM_FEATURES].copy()
TrainerFeatures ==
    /\ tpc = "features"
    /\ IF MissingFeatureColumns(df) = {}
       THEN TrainerGoto("encode")
       ELSE TrainerRaise("KeyError")
    /\ UNCHANGED <<genvars, opc, run, csv, srvvars>>

\* le_priority.fit_transform(df["priority"]);
\* le_feedback.fit_transform(df["feedback_label"]); y_accept = df["accepted"].values
TrainerEncode ==
    /\ tpc = "encode"
    /\ t_le_priority' = LabelEncoderFit(df.priority)
    /\ t_le_feedback' = LabelEncoderFit(y_feedback_labels)
    /\ tpc' = "dump_le_priority"
    /\ UNCHANGED <<genvars, opc, run, texit, df, y_feedback_labels, filevars, srvvars>>

\* the pickled encoder: its fit state
Encoder(classes) == [kind |-> "encoder", classes |-> classes]

\* joblib.dump(le_priority, "labelencoder_priority.pkl")
TrainerDumpLePriority ==
    /\ tpc = "dump_le_priority"
    /\ Dump("labelencoder_priority", Encoder(t_le_priority))
    /\ tpc' = "dump_le_feedback"
    /\ UNCHANGED <<genvars, encvars, opc, run, texit, df, y_feedback_labels, csv, srvvars>>

\* joblib.dump(le_feedback, "labelencoder_feedback.pkl")
TrainerDumpLeFeedback ==
    /\ tpc = "dump_le_feedback"
    /\ Dump("labelencoder_feedback", Encoder(t_le_feedback))
    /\ tpc' = "model_feedback"
    /\ UNCHANGED <<genvars, encvars, opc, run, texit, df, y_feedback_labels, csv, srvvars>>

\* the fitted pipeline: a fixed function of its input, determined by the table
\* it was fit on (every random_state is 42) and by the classes y was encoded with
FittedPipeline(y_classes) ==
    [kind |-> "model", table |-> df.table,
     n_features_in |-> Len(NUM_FEATURES), classes |-> y_classes]

\* train_and_evaluate(pipeline, param_grid, X, y, model_name): the split or
\* the fit raises and the run ends, or the best estimator is dumped
train_and_evaluate(y_classes, model_name, next) ==
    /\ tpc = model_name
    /\ \/ TrainerRaise("FitError")
       \/ /\ Dump(model_name, FittedPipeline(y_classes))
          /\ tpc' = next
          /\ UNCHANGED <<texit, df, y_feedback_labels, encvars>>
    /\ UNCHANGED <<genvars, opc, run, csv, srvvars>>

\* the class indices of y_accept
AcceptClasses(t) == SelectSeq(<<0, 1>>, LAMBDA x : x \in t.accepted)

TrainFeedback == train_and_evaluate(t_le_feedback, "model_feedback", "model_priority")
TrainPriority == train_and_evaluate(t_le_priority, "model_priority", "model_accept")
TrainAccept == train_and_evaluate(AcceptClasses(df), "model_accept", "dump_features")

\* joblib.dump(NUM_FEATURES, "model_features.pkl"); the run ends
TrainerDumpFeatures ==
    /\ tpc = "dump_features"
    /\ Dump("model_features", [kind |-> "features", names |-> NUM_FEATURES])
    /\ TrainerExit("ok")
    /\ UNCHANGED <<genvars, opc, run, csv, srvvars>>

(***************************************************************************)
(* ml_api.py                                                               *)
(***************************************************************************)

StartupIgnoringMissing ==
    /\ spc = "down"
    /\ tpc = "idle"
    /\ opc = "free"
    /\ loaded' = disk
    /\ spc' = "serving"
    /\ UNCHANGED <<genvars, encvars, trainvars, filevars, req>>

\* the module body: six joblib.load calls in ArtifactOrder; the first file
\* that is missing raises FileNotFoundError and the process ends before
\* uvicorn serves the app.  The operator starts the service while no trainer
\* run is active.
Startup ==
    /\ spc = "down"
    /\ tpc = "idle"
    /\ opc = "free"
    /\ IF \E k \in DOMAIN ArtifactOrder : disk[ArtifactOrder[k]] = NoFile
       THEN /\ spc' = "failed"
            /\ UNCHANGED loaded
       ELSE /\ loaded' = disk
            /\ spc' = "serving"
    /\ UNCHANGED <<genvars, encvars, trainvars, filevars, req>>

\* IssueInput(): every field at its default; floats in hundredths
DefaultInput ==
    [severity_score |-> 800, code_complexity |-> 700, lines_changed |-> 100,
     developer_feedbacks |-> 2, test_coverage |-> 60, past_acceptance_rate |-> 80,
     contains_security_fix |-> 1, review_time |-> 500]

\* the schema_extra example
ExampleInput ==
    [severity_score |-> 900, code_complexity |-> 800, lines_changed |-> 150,
     developer_feedbacks |-> 3, test_coverage |-> 40, past_acceptance_rate |-> 70,
     contains_security_fix |-> 1, review_time |-> 600]

\* validated request bodies
Inputs == {DefaultInput, ExampleInput}

ResponseKeys == {"feedback", "priority", "accept_prob"}
EmptyBody == [k \in {} |-> 0]

\* np.array([[getattr(input, f) for f in features]])
BuildX(input, feats) == [k \in 1..Len(feats) |-> input[feats[k]]]

RECURSIVE SumSeq(_)
SumSeq(x) == IF x = << >> THEN 0 ELSE Head(x) + SumSeq(Tail(x))

\* a pipeline checks the width of X against the width it was fit on
WidthMismatch(m, X) == Len(X) # m.n_features_in

\* model.predict(X)[0]: a class index of the y the pipeline was fit on.  The
\* fitted estimator is library code; it stands here as one fixed function of
\* X and of the fit, so that equal inputs on equal objects give equal outputs.
Predict(m, X) == ((SumSeq(X) \div 3) + m.table) % Len(m.classes)

\* model.predict_proba(X)[0][1], in ten-thousandths
PredictProba(m, X) == (SumSeq(X) * 7 + m.table * 1001) % 10001

\* LabelEncoder.inverse_transform([idx]) raises on an index outside classes_
Unseen(le, idx) == idx \notin 0..(Len(le.classes) - 1)
InverseTransform(le, idx) == le.classes[idx + 1]

NoRound3(p) == p

\* round(p, 3), on ten-thousandths: the nearest thousandth, a tie to the even one
Round3(p) ==
    LET q == p \div 10
        rem == p % 10
    IN  IF rem < 5 THEN q * 10
        ELSE IF rem > 5 THEN (q + 1) * 10
        ELSE IF q % 2 = 0 THEN q * 10 ELSE (q + 1) * 10

FailPartial(r, cause) ==
    [pc |-> "done", input |-> r.input,
     resp |-> [status |-> "error", error |-> cause,
               body |-> IF r.fb # Unset THEN [feedback |-> r.fb] ELSE EmptyBody]]

\* an exception leaves predict(): the locals are gone and the caller gets an
\* error response that carries no prediction
Fail(r, cause) ==
    [pc |-> "done", input |-> r.input,
     resp |-> [status |-> "error", error |-> cause, body |-> EmptyBody]]

\* a predict request arrives with a validated body
Arrive(i) ==
    /\ spc = "serving"
    /\ req[i].pc = "idle"
    /\ \A j \in 1..(i - 1) : req[j].pc # "idle"
    /\ \E input \in Inputs :
         req' = [req EXCEPT ![i] =
                   [pc |-> "build", input |-> input, X |-> << >>,
                    fb_idx |-> UnsetNum, fb |-> Unset,
                    pri_idx |-> UnsetNum, pri |-> Unset, prob |-> UnsetNum]]
    /\ UNCHANGED <<genvars, encvars, trainvars, filevars, spc, loaded>>

ReqBuildXConsuming(i) ==
    /\ spc = "serving"
    /\ req[i].pc = "build"
    /\ req' = [req EXCEPT ![i].X = BuildX(req[i].input, loaded["model_features"].names),
                          ![i].pc = "fb_predict"]
    /\ loaded' = [loaded EXCEPT !["model_features"].names = << >>]
    /\ UNCHANGED <<genvars, encvars, trainvars, filevars, spc>>

\* X = np.array([[getattr(input, f) for f in features]])
ReqBuildX(i) ==
    /\ spc = "serving"
    /\ req[i].pc = "build"
    /\ req' = [req EXCEPT ![i].X = BuildX(req[i].input, loaded["model_features"].names),
                          ![i].pc = "fb_predict"]
    /\ UNCHANGED <<genvars, encvars, trainvars, filevars, spc, loaded>>

\* feedback_model.predict(X)[0].  A call into a model either raises on its own
\* account (an internal failure, first disjunct), or rejects the width of X, or
\* returns.  The trainer always writes the eight names of NUM_FEATURES and fits
\* on eight columns, so with its artifacts the width never differs.
ReqFeedbackPredict(i) ==
    /\ spc = "serving"
    /\ req[i].pc = "fb_predict"
    /\ \/ req' = [req EXCEPT ![i] = Fail(req[i], "internal")]
       \/ IF WidthMismatch(loaded["model_feedback"], req[i].X)
          THEN req' = [req EXCEPT ![i] = Fail(req[i], "width")]
          ELSE req' = [req EXCEPT
                         ![i].fb_idx = Predict(loaded["model_feedback"], req[i].X),
                         ![i].pc = "fb_decode"]
    /\ UNCHANGED <<genvars, encvars, trainvars, filevars, spc, loaded>>

\* fb = le_feedback.inverse_transform([...])[0]
ReqFeedbackDecode(i) ==
    /\ spc = "serving"
    /\ req[i].pc = "fb_decode"
    /\ \/ req' = [req EXCEPT ![i] = Fail(req[i], "internal")]
       \/ IF Unseen(loaded["labelencoder_feedback"], req[i].fb_idx)
          THEN req' = [req EXCEPT ![i] = Fail(req[i], "unseen_label")]
          ELSE req' = [req EXCEPT
                         ![i].fb = InverseTransform(loaded["labelencoder_feedback"],
                                                    req[i].fb_idx),
                         ![i].pc = "pri_predict"]
    /\ UNCHANGED <<genvars, encvars, trainvars, filevars, spc, loaded>>

\* priority_model.predict(X)[0]
ReqPriorityPredict(i) ==
    /\ spc = "serving"
    /\ req[i].pc = "pri_predict"
    /\ \/ req' = [req EXCEPT ![i] = Fail(req[i], "internal")]
       \/ IF WidthMismatch(loaded["model_priority"], req[i].X)
          THEN req' = [req EXCEPT ![i] = Fail(req[i], "width")]
          ELSE req' = [req EXCEPT
                         ![i].pri_idx = Predict(loaded["model_priority"], req[i].X),
                         ![i].pc = "pri_decode"]
    /\ UNCHANGED <<genvars, encvars, trainvars, filevars, spc, loaded>>

\* pri = le_priority.inverse_transform([...])[0]
ReqPriorityDecode(i) ==
    /\ spc = "serving"
    /\ req[i].pc = "pri_decode"
    /\ \/ req' = [req EXCEPT ![i] = Fail(req[i], "internal")]
       \/ IF Unseen(loaded["labelencoder_priority"], req[i].pri_idx)
          THEN req' = [req EXCEPT ![i] = Fail(req[i], "unseen_label")]
          ELSE req' = [req EXCEPT
                         ![i].pri = InverseTransform(loaded["labelencoder_priority"],
                                                     req[i].pri_idx),
                         ![i].pc = "accept"]
    /\ UNCHANGED <<genvars, encvars, trainvars, filevars, spc, loaded>>

\* prob = round(accept_model.predict_proba(X)[0][1], 3)
ReqAcceptProba(i) ==
    /\ spc = "serving"
    /\ req[i].pc = "accept"
    /\ \/ req' = [req EXCEPT ![i] = Fail(req[i], "internal")]
       \/ IF WidthMismatch(loaded["model_accept"], req[i].X)
          THEN req' = [req EXCEPT ![i] = Fail(req[i], "width")]
          ELSE req' = [req EXCEPT
                         ![i].prob = Round3(PredictProba(loaded["model_accept"], req[i].X)),
                         ![i].pc = "return"]
    /\ UNCHANGED <<genvars, encvars, trainvars, filevars, spc, loaded>>

\* return {"feedback": fb, "priority": pri, "accept_prob": prob}
ReqReturn(i) ==
    /\ spc = "serving"
    /\ req[i].pc = "return"
    /\ req' = [req EXCEPT ![i] =
                 [pc |-> "done", input |-> req[i].input,
                  resp |-> [status |-> "ok", error |-> "none",
                            body |-> [feedback |-> req[i].fb,
                                      priority |-> req[i].pri,
                                      accept_prob |-> req[i].prob]]]]
    /\ UNCHANGED <<genvars, encvars, trainvars, filevars, spc, loaded>>

(***************************************************************************)
(* Spec: the pipeline                                                      *)
(***************************************************************************)

Init ==
    /\ GenOff
    /\ EncodersUnfit
    /\ PipelineStart
    /\ req = [i \in 1..MaxReq |-> NoRequest]

Next ==
    \/ GenerateData
    \/ ProvideDataset
    \/ RemoveArtifact
    \/ TrainerStart
    \/ TrainerLoad
    \/ TrainerLabel
    \/ TrainerBalance
    \/ TrainerFeatures
    \/ TrainerEncode
    \/ TrainerDumpLePriority
    \/ TrainerDumpLeFeedback
    \/ TrainFeedback
    \/ TrainPriority
    \/ TrainAccept
    \/ TrainerDumpFeatures
    \/ Startup
    \/ \E i \in 1..MaxReq :
         \/ Arrive(i)
         \/ ReqBuildX(i)
         \/ ReqFeedbackPredict(i)
         \/ ReqFeedbackDecode(i)
         \/ ReqPriorityPredict(i)
         \/ ReqPriorityDecode(i)
         \/ ReqAcceptProba(i)
         \/ ReqReturn(i)

Spec == Init /\ [][Next]_vars

(***************************************************************************)
(* Claims about the pipeline                                               *)
(***************************************************************************)

\* C4: if any one of the six artifact files is missing when the service
\* starts, startup fails, and the failed process never accepts a predict
\* request, whatever is written to disk afterwards.
C4_MissingArtifactFailsStartup ==
    [][/\ (spc = "down" /\ spc' # "down" /\ MissingArtifacts(disk) # {})
            => spc' = "failed"
       /\ spc = "failed"
            => (spc' = "failed" /\ \A i \in 1..MaxReq : req'[i].pc = "idle")
       /\ (\E i \in 1..MaxReq : req'[i].pc # "idle") => spc' = "serving"]_vars

\* startup failed on an incomplete set, no request has been accepted, and a
\* later trainer run has completed the set on disk
C4_Witness ==
    /\ spc = "failed"
    /\ MissingArtifacts(disk) = {}
    /\ texit = "ok"
    /\ \A i \in 1..MaxReq : req[i].pc = "idle"

\* each loaded encoder has the fit state its model was trained against
FitStatesMatch(l) ==
    /\ l["labelencoder_feedback"].classes = l["model_feedback"].classes
    /\ l["labelencoder_priority"].classes = l["model_priority"].classes

\* C5: after any sequence of trainer runs (aborted ones included) followed
\* by a service start, each label encoder the service loads has the exact
\* fit state of the trainer run that produced the model it decodes.
C5_EncodersMatchTheirModels ==
    spc = "serving" => FitStatesMatch(loaded)

\* C6: a predict request has no partial result: either all three
\* predictions are returned together, or the request fails and the response
\* contains none of them, whichever call is the one that fails.
C6_NoPartialResult ==
    \A i \in 1..MaxReq :
        req[i].pc = "done" =>
            \/ /\ req[i].resp.status = "ok"
               /\ DOMAIN req[i].resp.body = ResponseKeys
            \/ /\ req[i].resp.status = "error"
               /\ DOMAIN req[i].resp.body \cap ResponseKeys = {}

\* a request failed at the priority decode, after its feedback label had
\* been predicted and decoded
C6_Witness ==
    \E i \in 1..MaxReq :
        /\ req[i].pc = "done"
        /\ req[i].resp.status = "error"
        /\ req[i].resp.error = "unseen_label"
        /\ LET X == BuildX(req[i].input, loaded["model_features"].names)
           IN  /\ ~Unseen(loaded["labelencoder_feedback"],
                          Predict(loaded["model_feedback"], X))
               /\ Unseen(loaded["labelencoder_priority"],
                         Predict(loaded["model_priority"], X))

SetupDefect ==
    /\ tpc # "idle"
    /\ \/ tpc = "load" /\ csv = NoFile
       \/ df # NoTable /\ ~(AllColumns \subseteq df.columns)

\* C8: the trainer fails fast: with the dataset file absent or a required
\* column missing, the run ends with an error before any artifact file is
\* written.
C8_TrainerFailsFast ==
    [][SetupDefect =>
         /\ disk' = disk
         /\ tpc' \in {"label", "balance", "features", "idle"}
         /\ tpc' = "idle" => texit' \in {"FileNotFoundError", "KeyError"}]_vars

\* a second run has ended with KeyError on a table that lacks the last
\* feature column, and the complete set of an earlier run is still on disk
C8_Witness ==
    /\ tpc = "idle"
    /\ texit = "KeyError"
    /\ csv # NoFile
    /\ "review_time" \notin csv.columns
    /\ MissingArtifacts(disk) = {}

\* what predict() returns for an input when it runs alone on the loaded objects
Alone(input, l) ==
    LET X == BuildX(input, l["model_features"].names)
        fb_idx == Predict(l["model_feedback"], X)
        pri_idx == Predict(l["model_priority"], X)
        err(cause) == [status |-> "error", error |-> cause, body |-> EmptyBody]
    IN  IF WidthMismatch(l["model_feedback"], X) THEN err("width")
        ELSE IF Unseen(l["labelencoder_feedback"], fb_idx) THEN err("unseen_label")
        ELSE IF WidthMismatch(l["model_priority"], X) THEN err("width")
        ELSE IF Unseen(l["labelencoder_priority"], pri_idx) THEN err("unseen_label")
        ELSE IF WidthMismatch(l["model_accept"], X) THEN err("width")
        ELSE [status |-> "ok", error |-> "none",
              body |-> [feedback |-> InverseTransform(l["labelencoder_feedback"], fb_idx),
                        priority |-> InverseTransform(l["labelencoder_priority"], pri_idx),
                        accept_prob |-> Round3(PredictProba(l["model_accept"], X))]]

AgreesWithAlone(r, l) ==
    \/ r.resp.error = "internal"
    \/ LET a == Alone(r.input, l)
       IN  /\ r.resp.status = a.status
           /\ r.resp.error = a.error
           /\ a.status = "ok" => r.resp.body = a.body

\* C9: under any interleaving of concurrent predict requests, no request
\* writes to the process-wide state (models, encoders, feature list), which
\* stays as it was after startup, and each response equals the response the
\* same input gets when it runs alone.
C9_RequestsDoNotInterfere ==
    [][/\ spc = "serving" => loaded' = loaded
       /\ \A i \in 1..MaxReq :
            req'[i].pc = "done" => AgreesWithAlone(req'[i], loaded')]_vars

\* request 2 arrived after request 1 and was answered while request 1 was
\* still between its two decodes
C9_Witness ==
    /\ MaxReq >= 2
    /\ req[1].pc = "pri_predict"
    /\ req[2].pc = "done"
    /\ req[2].resp.status = "ok"
    /\ req[1].input # req[2].input

(***************************************************************************)
(* SpecGen: a row through generate_data.py, then through the trainer's     *)
(* label derivation and encoder fit                                        *)
(***************************************************************************)

\* data = {...}; df = pd.DataFrame(data)
GenSample ==
    /\ gpc = "sample"
    /\ row' \in SampledRows
    /\ gpc' = "feedback"
    /\ UNCHANGED <<csv_row, feedback_label, encvars, trainvars, filevars, srvvars>>

\* df["feedback_score"] = ...
GenFeedbackScore ==
    /\ gpc = "feedback"
    /\ row' = [row EXCEPT !.feedback_score = FeedbackScore(row)]
    /\ gpc' = "priority"
    /\ UNCHANGED <<csv_row, feedback_label, encvars, trainvars, filevars, srvvars>>

\* df["priority"] = df.apply(assign_priority, axis=1)
GenPriority ==
    /\ gpc = "priority"
    /\ row' = [row EXCEPT !.priority = assign_priority(row)]
    /\ gpc' = "accepted"
    /\ UNCHANGED <<csv_row, feedback_label, encvars, trainvars, filevars, srvvars>>

\* df["accepted"] = ...
GenAccepted ==
    /\ gpc = "accepted"
    /\ row' = [row EXCEPT !.accepted = Accepted(row)]
    /\ gpc' = "to_csv"
    /\ UNCHANGED <<csv_row, feedback_label, encvars, trainvars, filevars, srvvars>>

\* df.to_csv("synthetic_pr_data.csv", index=False)
GenToCsv ==
    /\ gpc = "to_csv"
    /\ csv_row' = row
    /\ gpc' = "label"
    /\ UNCHANGED <<row, feedback_label, encvars, trainvars, filevars, srvvars>>

\* trainer: df["feedback_label"] = df["feedback_score"].apply(feedback_bucket)
RowFeedbackLabel ==
    /\ gpc = "label"
    /\ feedback_label' = feedback_bucket(csv_row.feedback_score)
    /\ gpc' = "encode"
    /\ UNCHANGED <<row, csv_row, encvars, trainvars, filevars, srvvars>>

\* trainer: le_priority.fit_transform(df["priority"]);
\* le_feedback.fit_transform(df["feedback_label"]), the rows so far; the row
\* is then done with
RowFitEncoders ==
    /\ gpc = "encode"
    /\ t_le_priority' = LabelEncoderFit(Range(t_le_priority) \cup {csv_row.priority})
    /\ t_le_feedback' = LabelEncoderFit(Range(t_le_feedback) \cup {feedback_label})
    /\ row' = NoRow
    /\ csv_row' = NoRow
    /\ feedback_label' = Unset
    /\ gpc' = "sample"
    /\ UNCHANGED <<trainvars, filevars, srvvars>>

InitGen ==
    /\ gpc = "feedback"
    /\ row \in SampledRows
    /\ csv_row = NoRow
    /\ feedback_label = Unset
    /\ EncodersUnfit
    /\ PipelineStart
    /\ req = << >>

NextGen ==
    \/ GenSample
    \/ GenFeedbackScore
    \/ GenPriority
    \/ GenAccepted
    \/ GenToCsv
    \/ RowFeedbackLabel
    \/ RowFitEncoders

SpecGen == InitGen /\ [][NextGen]_vars

(***************************************************************************)
(* Claims about the generator                                              *)
(***************************************************************************)

\* C1: every generated row has priority "critical" iff severity_score >= 8,
\* "high" iff 6 <= severity_score < 8, "medium" iff 4 <= severity_score < 6,
\* and "low" otherwise, for every severity_score in 1..10.
C1_PriorityIsStepOfSeverity ==
    \A r \in {row, csv_row} :
        (r # NoRow /\ r.priority # Unset) =>
            /\ r.severity_score \in 1..10
            /\ (r.priority = "critical") <=> (r.severity_score >= 8)
            /\ (r.priority = "high") <=> (6 <= r.severity_score /\ r.severity_score < 8)
            /\ (r.priority = "medium") <=> (4 <= r.severity_score /\ r.severity_score < 6)
            /\ (r.priority = "low") <=> (r.severity_score < 4)
            /\ r.priority \in {"critical", "high", "medium", "low"}

\* a row at the lower edge of "high" has been written
C1_Witness ==
    /\ csv_row # NoRow
    /\ csv_row.severity_score = 6
    /\ csv_row.priority = "high"

\* C2: every generated row has accepted = 1 iff developer_feedbacks < 3 and
\* test_coverage > 0.6 and past_acceptance_rate > 0.5 and severity_score < 9
\* (all strict), and accepted = 0 otherwise.
C2_AcceptedIsStrictConjunction ==
    \A r \in {row, csv_row} :
        (r # NoRow /\ r.accepted # UnsetNum) =>
            /\ r.accepted \in {0, 1}
            /\ (r.accepted = 1) <=>
                 ~ \/ r.developer_feedbacks >= 3
                   \/ r.test_coverage <= 60
                   \/ r.past_acceptance_rate <= 50
                   \/ r.severity_score >= 9

\* a row with test_coverage exactly 0.6, every other condition met, is written
\* with accepted = 0
C2_Witness ==
    /\ csv_row # NoRow
    /\ csv_row.test_coverage = 60
    /\ csv_row.developer_feedbacks = 2
    /\ csv_row.past_acceptance_rate = 51
    /\ csv_row.severity_score = 8
    /\ csv_row.accepted = 0

\* C3: every feedback_score is 5 - 0.5*developer_feedbacks + 2*test_coverage +
\* past_acceptance_rate clamped to [1, 5] and rounded to one decimal: a
\* multiple of 0.1 in [1.0, 5.0], within 0.05 of the clamped value.
C3_FeedbackScoreClampedRounded ==
    \A r \in {row, csv_row} :
        (r # NoRow /\ r.feedback_score # UnsetNum) =>
            LET raw == 500 - 50 * r.developer_feedbacks
                         + 2 * r.test_coverage + r.past_acceptance_rate
                fs == r.feedback_score
            IN  /\ fs % 10 = 0
                /\ 100 <= fs /\ fs <= 500
                /\ raw >= 500 => fs = 500
                /\ raw <= 100 => fs = 100
                /\ (100 < raw /\ raw < 500) => (fs - raw <= 5 /\ raw - fs <= 5)

\* a row whose unclamped sum is not a multiple of 0.1 and lies inside (1, 5)
C3_Witness ==
    /\ csv_row # NoRow
    /\ FeedbackRaw(csv_row) % 10 # 0
    /\ FeedbackRaw(csv_row) < 500
    /\ csv_row.feedback_score % 10 = 0

====
